---- MODULE Spec2Model ----
(***************************************************************************)
(* Model of the Alarm.com alarm control panel entity                       *)
(* (custom_components/alarmdotcom/alarm_control_panel.py) and of the base  *)
(* entity it derives from (custom_components/alarmdotcom/base_device.py).  *)
(*                                                                         *)
(* Python values that the code compares across types (the configured arm   *)
(* code, the code a caller supplies) are tagged records [t, v]: t is the   *)
(* Python type, v the value written as a sequence of characters, so that   *)
(* the string "0", the integer 0, the empty string and None are four       *)
(* different values.  Nullable booleans and enum members are strings, with *)
(* "None" for Python's None.                                               *)
(***************************************************************************)
EXTENDS Integers, Sequences, FiniteSets, TLC

\* ------------------------------------------------------------- bounds

\* Arm/disarm service calls made in one behaviour.
MaxCalls == 2
\* Partitions the controller reports at setup.
MaxPartitions == 2

\* ------------------------------------------------------ Python values

PyNone == [t |-> "NoneType", v |-> <<>>]
PyStr(s) == [t |-> "str", v |-> s]
PyInt(digits) == [t |-> "int", v |-> digits]

\* Python's ==, on None, str and int.
PyEq(a, b) == a.t = b.t /\ a.v = b.v

\* Python's truth value of None, a str or an int.
PyTruthy(x) ==
    CASE x.t = "NoneType" -> FALSE
      [] x.t = "str" -> x.v # <<>>
      [] x.t = "int" -> x.v # <<"0">>

\* x in [a, b, ...]: equal to one of the list's items.
PyInList(x, list) == \E i \in 1..Len(list) : PyEq(x, list[i])

Digits == {"0", "1", "2", "3", "4", "5", "6", "7", "8", "9"}

\* re.search("^\\d+$", s): one or more digits; "$" also matches just before
\* one trailing newline.
ReSearchDigits(s) ==
    LET body == IF Len(s) > 0 /\ s[Len(s)] = "\n" THEN SubSeq(s, 1, Len(s) - 1) ELSE s
    IN  Len(body) > 0 /\ \A i \in 1..Len(body) : body[i] \in Digits

\* Values the configured arm code takes: absent, "", "12", "ab", 0 and 12.
ArmCodeValues ==
    { PyNone, PyStr(<<>>), PyStr(<<"1", "2">>), PyStr(<<"a", "b">>),
      PyInt(<<"0">>), PyInt(<<"1", "2">>) }

\* Codes a caller supplies (str | None).
SuppliedCodes ==
    { PyNone, PyStr(<<"1", "2">>), PyStr(<<"a", "b">>) }

NullableBool == {"None", "False", "True"}

\* libPartition.DeviceState members, and None for a missing state.
DeviceStates == {"None", "UNKNOWN", "DISARMED", "ARMED_STAY", "ARMED_AWAY", "ARMED_NIGHT"}

CONF_ARM_CODE == "arm_code"
CONF_ARM_HOME == "arm_home"
CONF_ARM_AWAY == "arm_away"
CONF_ARM_NIGHT == "arm_night"
CONF_FORCE_BYPASS == "CONF_FORCE_BYPASS"
CONF_NO_ENTRY_DELAY == "CONF_NO_ENTRY_DELAY"
CONF_SILENT_ARM == "CONF_SILENT_ARM"
ArmOptionNames == {CONF_FORCE_BYPASS, CONF_NO_ENTRY_DELAY, CONF_SILENT_ARM}

\* A per-action configuration entry: absent, or the collection of the options
\* enabled for the action.
Absent == [present |-> FALSE, enabled |-> {}]
Enabled(S) == [present |-> TRUE, enabled |-> S]
ArmOptionEntries == {Absent} \cup {Enabled(S) : S \in SUBSET ArmOptionNames}

STATE_ALARM_DISARMED == "disarmed"
STATE_ALARM_ARMED_HOME == "armed_home"
STATE_ALARM_ARMED_AWAY == "armed_away"
STATE_ALARM_ARMED_NIGHT == "armed_night"
STATE_ALARM_ARMING == "arming"
STATE_ALARM_DISARMING == "disarming"

ATTRIB_BATTERY_NORMAL == "normal"
ATTRIB_BATTERY_LOW == "low"
ATTRIB_BATTERY_CRITICAL == "critical"

ARM_HOME == "ARM_HOME"
ARM_AWAY == "ARM_AWAY"
ARM_NIGHT == "ARM_NIGHT"

\* ------------------------------------------------------------ devices

\* A partition object of the vendor library, with the attributes the entity reads.
Partition(id, st, mal, night, crit, low, issues) ==
    [ id_ |-> id, state |-> st, malfunction |-> mal, supports_night_arming |-> night,
      battery_critical |-> crit, battery_low |-> low, uncleared_issues |-> issues ]

PartitionIds == << "p1", "p2", "p3", "p4" >>

\* -------------------------------------------------------------- state

VARIABLES
    options,        \* controller.options: arm_code and the three per-action entries
    partitions,     \* controller.api.devices.partitions, in dict order (the live cache)
    setup,          \* async_setup_entry and the generator it hands to the host
    host_entities,  \* entities the host has received through async_add_entities
    entity,         \* fields the initialisers set once: _adc_id, _attr_unique_id,
                    \* _attr_code_format, _attr_supported_features
    _device,        \* self._device: the partition object the entity holds
    aliased,        \* whether self._device is the very object the cache holds
    _attr_state,    \* self._attr_state
    _attr_extra_state_attributes,
    added,          \* async_added_to_hass has run (listeners are registered)
    host_state,     \* the state last written to the host (async_write_ha_state)
    calls,          \* the arm/disarm service calls made, in order
    vendor_log,     \* invocations of the partition's async_* methods, in order
    notifications,  \* persistent_notification.async_create requests, in order
    last_accepted,  \* the last call that passed the code check since the last
                    \* refresh (0: none)
    battery_read    \* the last read of battery_level / battery_alert

vars ==
    << options, partitions, setup, host_entities, entity, _device, aliased,
       _attr_state, _attr_extra_state_attributes, added, host_state, calls,
       vendor_log, notifications, last_accepted, battery_read >>

setup_vars == << setup, host_entities >>
device_vars == << partitions, _device, aliased >>
call_vars == << calls, vendor_log, notifications >>

\* The place of the partition `id` in the cache.
DeviceIndex(id) == CHOOSE j \in 1..Len(partitions) : partitions[j].id_ = id

\* controller.api.devices.get(id)
DevicesGet(id) == partitions[DeviceIndex(id)]

\* ------------------------------------------------------ pure functions

\* AlarmControlPanel.__init__: self._attr_code_format
CodeFormatOf(arm_code) ==
    IF PyTruthy(arm_code)
    THEN IF arm_code.t = "str" /\ ReSearchDigits(arm_code.v) THEN "NUMBER" ELSE "TEXT"
    ELSE "None"

\* AlarmControlPanel.__init__: self._attr_supported_features
SupportedFeaturesOf(device) ==
    {ARM_HOME, ARM_AWAY} \cup (IF device.supports_night_arming THEN {ARM_NIGHT} ELSE {})

\* The fields BaseDevice.__init__, HardwareBaseDevice.__init__ and
\* AlarmControlPanel.__init__ assign.
EntityFields(opts, device) ==
    [ _adc_id |-> device.id_,
      _attr_unique_id |-> device.id_,
      _attr_code_format |-> CodeFormatOf(opts[CONF_ARM_CODE]),
      _attr_supported_features |-> SupportedFeaturesOf(device) ]

\* A mapping that forgets the malfunction flag.
_determine_state_ignoring_malfunction(device, state) ==
    CASE state = "DISARMED" -> STATE_ALARM_DISARMED
      [] state = "ARMED_STAY" -> STATE_ALARM_ARMED_HOME
      [] state = "ARMED_AWAY" -> STATE_ALARM_ARMED_AWAY
      [] state = "ARMED_NIGHT" -> STATE_ALARM_ARMED_NIGHT
      [] OTHER -> "None"

\* AlarmControlPanel._determine_state, on the device the entity holds.
_determine_state(device, state) ==
    IF device.malfunction = "True" \/ state = "None"
    THEN "None"
    ELSE CASE state = "DISARMED" -> STATE_ALARM_DISARMED
           [] state = "ARMED_STAY" -> STATE_ALARM_ARMED_HOME
           [] state = "ARMED_AWAY" -> STATE_ALARM_ARMED_AWAY
           [] state = "ARMED_NIGHT" -> STATE_ALARM_ARMED_NIGHT
           [] OTHER -> "None"

\* A check that takes every falsy configured code for "no code configured".
_validate_code_by_truthiness(opts, code) ==
    ~PyTruthy(opts[CONF_ARM_CODE]) \/ PyEq(code, opts[CONF_ARM_CODE])

\* AlarmControlPanel._validate_code
_validate_code(opts, code) ==
    \/ PyInList(opts[CONF_ARM_CODE], << PyNone, PyStr(<<>>) >>)
    \/ PyEq(code, opts[CONF_ARM_CODE])

\* A battery level that tests battery_low before battery_critical.
battery_level_low_first(device) ==
    IF device.battery_critical = "None" /\ device.battery_low = "None" THEN "None"
    ELSE IF device.battery_low = "True" THEN ATTRIB_BATTERY_LOW
    ELSE IF device.battery_critical = "True" THEN ATTRIB_BATTERY_CRITICAL
    ELSE ATTRIB_BATTERY_NORMAL

\* BaseDevice.battery_level
battery_level(device) ==
    IF device.battery_critical = "None" /\ device.battery_low = "None" THEN "None"
    ELSE IF device.battery_critical = "True" THEN ATTRIB_BATTERY_CRITICAL
    ELSE IF device.battery_low = "True" THEN ATTRIB_BATTERY_LOW
    ELSE ATTRIB_BATTERY_NORMAL

\* BaseDevice.battery_alert
battery_alert(device) ==
    CASE battery_level(device) = ATTRIB_BATTERY_NORMAL -> "False"
      [] battery_level(device) \in {ATTRIB_BATTERY_LOW, ATTRIB_BATTERY_CRITICAL} -> "True"
      [] OTHER -> "None"

PyBool(b) == IF b THEN "True" ELSE "False"

\* self._controller.options.get(key, {})
OptionsGet(opts, key) == IF opts[key].present THEN opts[key].enabled ELSE {}

\* The keyword arguments of async_arm_night / async_arm_stay / async_arm_away:
\* each is "CONF_... in arm_options".
ArmFlags(arm_options) ==
    { << "force_bypass", PyBool(CONF_FORCE_BYPASS \in arm_options) >>,
      << "no_entry_delay", PyBool(CONF_NO_ENTRY_DELAY \in arm_options) >>,
      << "silent_arming", PyBool(CONF_SILENT_ARM \in arm_options) >> }

\* async_disarm() takes no arguments.
NoFlags == {}

\* ------------------------------------------------------------ refresh

\* AlarmControlPanel._update_device_data.  It overrides
\* BaseDevice._update_device_data (self._device = devices.get(self._adc_id),
\* then async_write_ha_state) and does not call it: the state is computed
\* from the partition object the entity already holds, and nothing is written
\* to the host.
_update_device_data ==
    /\ _attr_state' = _determine_state(_device, _device.state)
    /\ _attr_extra_state_attributes' =
           [_attr_extra_state_attributes EXCEPT !.uncleared_issues = _device.uncleared_issues]
    /\ last_accepted' = 0
    /\ UNCHANGED << _device, aliased >>

\* BaseDevice.async_added_to_hass: the coordinator listener and the dispatcher
\* signal are connected, then the refresh runs; the host writes the entity's
\* state once the entity is added.
async_added_to_hass ==
    /\ ~added
    /\ added' = TRUE
    /\ _update_device_data
    /\ host_state' = _attr_state'
    /\ UNCHANGED << options, partitions, entity, battery_read >>
    /\ UNCHANGED << setup_vars, call_vars >>

\* BaseDevice._handle_coordinator_update: CoordinatorEntity's handler writes the
\* state to the host, then the refresh runs.
_handle_coordinator_update ==
    /\ added
    /\ host_state' = _attr_state
    /\ _update_device_data
    /\ UNCHANGED << options, partitions, entity, added, battery_read >>
    /\ UNCHANGED << setup_vars, call_vars >>

\* The per-device dispatch signal, connected to self._update_device_data.
DispatchSignal ==
    /\ added
    /\ _update_device_data
    /\ UNCHANGED << options, partitions, entity, added, host_state, battery_read >>
    /\ UNCHANGED << setup_vars, call_vars >>

\* ------------------------------------------------- the vendor's cache

\* The vendor library updates the partition it caches: it changes the
\* attributes of the cached object ...
VendorUpdateInPlace(new) ==
    /\ new # DevicesGet(new.id_)
    /\ partitions' = [partitions EXCEPT ![DeviceIndex(new.id_)] = new]
    /\ _device' = IF aliased THEN new ELSE _device
    /\ UNCHANGED << options, entity, aliased, _attr_state, _attr_extra_state_attributes,
                    added, host_state, last_accepted, battery_read >>
    /\ UNCHANGED << setup_vars, call_vars >>

\* ... or puts a new object in the cache.
VendorUpdateReplace(new) ==
    /\ partitions' = [partitions EXCEPT ![DeviceIndex(new.id_)] = new]
    /\ aliased' = FALSE
    /\ UNCHANGED << options, entity, _device, _attr_state, _attr_extra_state_attributes,
                    added, host_state, last_accepted, battery_read >>
    /\ UNCHANGED << setup_vars, call_vars >>

\* ----------------------------------------------------------- commands

\* The part the four async_alarm_* methods share: the code check, the
\* optimistic state, then the call of the partition's method, which runs up to
\* the method's first suspension.  The call is logged with the state the
\* entity holds at that moment.
SendCommand(op, code, in_progress, method, flags) ==
    LET id == Len(calls) + 1
    IN  /\ added
        /\ Len(calls) < MaxCalls
        /\ IF _validate_code(options, code)
           THEN /\ _attr_state' = in_progress
                /\ vendor_log' = Append(vendor_log,
                       [ call |-> id, method |-> method, flags |-> flags,
                         entity_state |-> _attr_state' ])
                /\ calls' = Append(calls,
                       [ op |-> op, code |-> code, status |-> "awaiting",
                         vendor |-> "pending" ])
                /\ last_accepted' = id
           ELSE /\ calls' = Append(calls,
                       [ op |-> op, code |-> code, status |-> "returned",
                         vendor |-> "not_called" ])
                /\ UNCHANGED << _attr_state, vendor_log, last_accepted >>
        /\ UNCHANGED << options, entity, _attr_extra_state_attributes, added,
                        host_state, notifications, battery_read >>
        /\ UNCHANGED << setup_vars, device_vars >>

async_alarm_disarm(code) ==
    SendCommand("async_alarm_disarm", code, STATE_ALARM_DISARMING, "async_disarm", NoFlags)

async_alarm_arm_night(code) ==
    SendCommand("async_alarm_arm_night", code, STATE_ALARM_ARMING, "async_arm_night",
                ArmFlags(OptionsGet(options, CONF_ARM_NIGHT)))

\* arm_home sending the arm_away command.
async_alarm_arm_home_sends_away(code) ==
    SendCommand("async_alarm_arm_home", code, STATE_ALARM_ARMING, "async_arm_away",
                ArmFlags(OptionsGet(options, CONF_ARM_HOME)))

\* arm_home reading the options of arm_away.
async_alarm_arm_home_reads_away_options(code) ==
    SendCommand("async_alarm_arm_home", code, STATE_ALARM_ARMING, "async_arm_stay",
                ArmFlags(OptionsGet(options, CONF_ARM_AWAY)))

async_alarm_arm_home(code) ==
    SendCommand("async_alarm_arm_home", code, STATE_ALARM_ARMING, "async_arm_stay",
                ArmFlags(OptionsGet(options, CONF_ARM_HOME)))

async_alarm_arm_away(code) ==
    SendCommand("async_alarm_arm_away", code, STATE_ALARM_ARMING, "async_arm_away",
                ArmFlags(OptionsGet(options, CONF_ARM_AWAY)))

\* The action each method names in its "except NotAuthorized" clause.
ExceptAction(op) ==
    CASE op = "async_alarm_disarm" -> "disarm"
      [] op = "async_alarm_arm_night" -> "arm_night"
      [] op = "async_alarm_arm_home" -> "arm_home"
      [] op = "async_alarm_arm_away" -> "arm_away"

\* BaseDevice._show_permission_error: one persistent_notification.async_create
\* request whose message names the action, the device type and the device.
_show_permission_error(id, action) ==
    notifications' = Append(notifications,
        [ call |-> id, action |-> action, device_type |-> "alarm control panel",
          adc_id |-> entity._adc_id, notification_id |-> "alarmcom_permission_error" ])

\* The awaited vendor method returns: the command returns to its caller.
VendorCallSucceeds(id) ==
    /\ calls[id].status = "awaiting"
    /\ calls' = [calls EXCEPT ![id].status = "returned", ![id].vendor = "ok"]
    /\ UNCHANGED << options, entity, _attr_state, _attr_extra_state_attributes, added,
                    host_state, vendor_log, notifications, last_accepted, battery_read >>
    /\ UNCHANGED << setup_vars, device_vars >>

\* An except clause that shows the permission error and raises again.
VendorCallNotAuthorized_reraises(id) ==
    /\ calls[id].status = "awaiting"
    /\ _show_permission_error(id, ExceptAction(calls[id].op))
    /\ calls' = [calls EXCEPT ![id].status = "raised", ![id].vendor = "NotAuthorized"]
    /\ UNCHANGED << options, entity, _attr_state, _attr_extra_state_attributes, added,
                    host_state, vendor_log, last_accepted, battery_read >>
    /\ UNCHANGED << setup_vars, device_vars >>

\* An except clause that also puts the state back to the device's.
VendorCallNotAuthorized_restores_state(id) ==
    /\ calls[id].status = "awaiting"
    /\ _show_permission_error(id, ExceptAction(calls[id].op))
    /\ calls' = [calls EXCEPT ![id].status = "returned", ![id].vendor = "NotAuthorized"]
    /\ _attr_state' = _determine_state(_device, _device.state)
    /\ UNCHANGED << options, entity, _attr_extra_state_attributes, added,
                    host_state, vendor_log, last_accepted, battery_read >>
    /\ UNCHANGED << setup_vars, device_vars >>

\* The awaited vendor method raises NotAuthorized: the except clause shows the
\* permission error and the command returns to its caller.
VendorCallNotAuthorized(id) ==
    /\ calls[id].status = "awaiting"
    /\ _show_permission_error(id, ExceptAction(calls[id].op))
    /\ calls' = [calls EXCEPT ![id].status = "returned", ![id].vendor = "NotAuthorized"]
    /\ UNCHANGED << options, entity, _attr_state, _attr_extra_state_attributes, added,
                    host_state, vendor_log, last_accepted, battery_read >>
    /\ UNCHANGED << setup_vars, device_vars >>

\* The awaited vendor method raises anything else: no clause catches it and
\* the command raises it to its caller.
VendorCallFails(id) ==
    /\ calls[id].status = "awaiting"
    /\ calls' = [calls EXCEPT ![id].status = "raised", ![id].vendor = "error"]
    /\ UNCHANGED << options, entity, _attr_state, _attr_extra_state_attributes, added,
                    host_state, vendor_log, notifications, last_accepted, battery_read >>
    /\ UNCHANGED << setup_vars, device_vars >>

\* A read of the battery_level and battery_alert properties.
ReadBattery ==
    /\ battery_read' =
           [ critical |-> _device.battery_critical, low |-> _device.battery_low,
             level |-> battery_level(_device), alert |-> battery_alert(_device) ]
    /\ UNCHANGED << options, entity, _attr_state, _attr_extra_state_attributes, added,
                    host_state, last_accepted >>
    /\ UNCHANGED << setup_vars, device_vars, call_vars >>

\* ------------------------------------------------------- specifications

Options(code, home, away, night) ==
    [ arm_code |-> code, arm_home |-> home, arm_away |-> away, arm_night |-> night ]

NoRead == [ critical |-> "None", low |-> "None", level |-> "unread", alert |-> "unread" ]

\* The state once the initialisers have assigned the entity's fields for
\* `device` under `opts`; the entity is not yet added to the host.  The
\* methods of the entity are checked from this state; whether the initialiser
\* gets as far as these assignments is the matter of SpecSetup.
InitEntity(opts, device) ==
    /\ options = opts
    /\ partitions = << device >>
    /\ setup = [ status |-> "added", remaining |-> << >> ]
    /\ host_entities = << EntityFields(opts, device) >>
    /\ entity = EntityFields(opts, device)
    /\ _device = device
    /\ aliased = TRUE
    /\ _attr_state = "None"
    /\ _attr_extra_state_attributes = [ uncleared_issues |-> "unset" ]
    /\ added = FALSE
    /\ host_state = "unwritten"
    /\ calls = << >>
    /\ vendor_log = << >>
    /\ notifications = << >>
    /\ last_accepted = 0
    /\ battery_read = NoRead

Refresh == async_added_to_hass \/ _handle_coordinator_update \/ DispatchSignal

Commands(codes) ==
    \E code \in codes :
        \/ async_alarm_disarm(code)
        \/ async_alarm_arm_night(code)
        \/ async_alarm_arm_home(code)
        \/ async_alarm_arm_away(code)

Awaited ==
    \E id \in 1..Len(calls) :
        \/ VendorCallSucceeds(id)
        \/ VendorCallNotAuthorized(id)
        \/ VendorCallFails(id)

\* Arm/disarm commands with every configured and supplied code, on a partition
\* whose state the vendor leaves alone.
Init ==
    \E code \in ArmCodeValues :
        InitEntity(Options(code, Absent, Enabled({CONF_SILENT_ARM}), Enabled({})),
                   Partition("p1", "DISARMED", "False", TRUE, "None", "None", "None"))

Next == Refresh \/ Commands(SuppliedCodes) \/ Awaited

Spec == Init /\ [][Next]_vars

\* --------------------------------------------- properties of commands

\* The configured code is unconfigured: absent or the empty string.
Unconfigured(arm_code) == arm_code = PyNone \/ arm_code = PyStr(<< >>)

CodeCheckPasses(code) == Unconfigured(options.arm_code) \/ code = options.arm_code

VendorEntriesOf(id) == { i \in 1..Len(vendor_log) : vendor_log[i].call = id }
NotificationsOf(id) == { i \in 1..Len(notifications) : notifications[i].call = id }

\* What the code check decides for every call made so far.
CodeGateState ==
    \A id \in 1..Len(calls) :
        /\ VendorEntriesOf(id) # {} <=> CodeCheckPasses(calls[id].code)
        /\ ~CodeCheckPasses(calls[id].code) =>
               /\ NotificationsOf(id) = {}
               /\ calls[id].status = "returned"

\* What the step that makes a call changes.
CodeGateStep ==
    Len(calls') = Len(calls) + 1 =>
        LET id == Len(calls) + 1
        IN  IF CodeCheckPasses(calls'[id].code)
            THEN /\ Len(vendor_log') = Len(vendor_log) + 1
                 /\ vendor_log'[Len(vendor_log')].call = id
            ELSE UNCHANGED << _attr_state, vendor_log, notifications, host_state >>

\* C1: for each of the four operations, every configured arm code and every
\* supplied code, the vendor method is invoked if and only if the configured
\* code is absent or the empty string, or the supplied code equals it; when
\* the check fails the vendor is not called, no notification is created and
\* the entity's state is left unchanged.
C1_VendorInvokedIffCodeAccepted == [](CodeGateState) /\ [][CodeGateStep]_vars

\* With a code configured, a disarm that supplied it was accepted and an
\* arm_away that supplied another was refused, leaving the state "disarming".
C1_Witness ==
    /\ Len(calls) = 2
    /\ calls[1].code # PyNone
    /\ CodeCheckPasses(calls[1].code) /\ ~Unconfigured(options.arm_code)
    /\ ~CodeCheckPasses(calls[2].code)
    /\ _attr_state = STATE_ALARM_DISARMING
    /\ calls[2].op = "async_alarm_arm_away"

\* The vendor method and the optimistic state that belong to an operation.
MethodOf(op) ==
    CASE op = "async_alarm_disarm" -> << "async_disarm", "disarming" >>
      [] op = "async_alarm_arm_home" -> << "async_arm_stay", "arming" >>
      [] op = "async_alarm_arm_away" -> << "async_arm_away", "arming" >>
      [] op = "async_alarm_arm_night" -> << "async_arm_night", "arming" >>

\* C2: when the code check passes, an operation sets its in-progress state
\* before it invokes the vendor client, and invokes its own vendor method
\* exactly once: disarm sets "disarming" then calls async_disarm, arm_home sets
\* "arming" then calls async_arm_stay, arm_away "arming" then async_arm_away,
\* arm_night "arming" then async_arm_night; no operation calls the method of
\* another.
C2_OptimisticStateThenOwnMethodOnce ==
    /\ \A i \in 1..Len(vendor_log) :
           /\ vendor_log[i].call \in 1..Len(calls)
           /\ vendor_log[i].method = MethodOf(calls[vendor_log[i].call].op)[1]
           /\ vendor_log[i].entity_state = MethodOf(calls[vendor_log[i].call].op)[2]
    /\ \A id \in 1..Len(calls) :
           CodeCheckPasses(calls[id].code) => Cardinality(VendorEntriesOf(id)) = 1

\* A disarm and an arm_home were both accepted, one after the other.
C2_Witness ==
    /\ Len(vendor_log) = 2
    /\ vendor_log[1].method = "async_arm_stay" /\ vendor_log[1].entity_state = "arming"
    /\ vendor_log[2].method = "async_disarm" /\ vendor_log[2].entity_state = "disarming"

\* The action a notification names for an operation.
ActionNameOf(op) ==
    CASE op = "async_alarm_disarm" -> "disarm"
      [] op = "async_alarm_arm_home" -> "arm_home"
      [] op = "async_alarm_arm_away" -> "arm_away"
      [] op = "async_alarm_arm_night" -> "arm_night"

\* C3: a NotAuthorized failure of the vendor client during an arm/disarm
\* operation is caught: the operation returns normally, the vendor method was
\* called exactly once for it, and exactly one notification-create request
\* naming the failed action is issued; a successful vendor call creates no
\* notification.
C3_NotAuthorizedBecomesOneNotification ==
    \A id \in 1..Len(calls) :
        /\ calls[id].vendor = "NotAuthorized" =>
               /\ calls[id].status = "returned"
               /\ Cardinality(VendorEntriesOf(id)) = 1
               /\ Cardinality(NotificationsOf(id)) = 1
               /\ \A i \in NotificationsOf(id) :
                      notifications[i].action = ActionNameOf(calls[id].op)
        /\ calls[id].vendor = "ok" =>
               /\ calls[id].status = "returned"
               /\ NotificationsOf(id) = {}

\* One call was refused by the vendor and one succeeded.
C3_Witness ==
    /\ Len(calls) = 2
    /\ calls[1].vendor = "NotAuthorized" /\ calls[1].op = "async_alarm_arm_night"
    /\ calls[2].vendor = "ok"
    /\ Len(notifications) = 1 /\ notifications[1].action = "arm_night"

InProgressStates == { STATE_ALARM_ARMING, STATE_ALARM_DISARMING }

\* C9: after an accepted operation the state stays at the in-progress value
\* whether the vendor call succeeded or failed with NotAuthorized, until the
\* next refresh overwrites it: the state is "arming"/"disarming" only if an
\* accepted operation has run since the last refresh, and then it is the
\* in-progress value of the last such operation.
C9_InProgressUntilNextRefresh ==
    /\ last_accepted = 0 => _attr_state \notin InProgressStates
    /\ last_accepted # 0 =>
           /\ last_accepted \in 1..Len(calls)
           /\ _attr_state = MethodOf(calls[last_accepted].op)[2]

\* The vendor refused an accepted arm command and no refresh has run since.
C9_Witness ==
    /\ last_accepted # 0
    /\ calls[last_accepted].vendor = "NotAuthorized"
    /\ calls[last_accepted].status = "returned"
    /\ Len(notifications) = 1
    /\ _attr_state = STATE_ALARM_ARMING

\* C10: the advertised code format and the code check agree for every value
\* of the configured arm code: with no code format advertised every supplied
\* code is accepted, and with a format advertised only the configured code is.
C10_CodeFormatAgreesWithCheck ==
    \A id \in 1..Len(calls) :
        /\ entity._attr_code_format = "None" => VendorEntriesOf(id) # {}
        /\ entity._attr_code_format \in {"NUMBER", "TEXT"} /\ VendorEntriesOf(id) # {} =>
               calls[id].code = options.arm_code

\* ------------------------------------------------ per-action options

\* Arm/disarm commands under every combination of the three per-action
\* configuration entries, with no arm code configured.
InitFlags ==
    \E home \in ArmOptionEntries, away \in ArmOptionEntries, night \in ArmOptionEntries :
        InitEntity(Options(PyNone, home, away, night),
                   Partition("p1", "DISARMED", "False", TRUE, "None", "None", "None"))

NextFlags ==
    \/ async_added_to_hass
    \/ Commands({PyNone})
    \/ \E id \in 1..Len(calls) : VendorCallSucceeds(id)

SpecFlags == InitFlags /\ [][NextFlags]_vars

\* The flags an action is to send for its configuration entry: a flag is
\* true exactly when the entry exists and enables the option.
ExpectedFlags(entry) ==
    { << "force_bypass", PyBool(entry.present /\ CONF_FORCE_BYPASS \in entry.enabled) >>,
      << "no_entry_delay", PyBool(entry.present /\ CONF_NO_ENTRY_DELAY \in entry.enabled) >>,
      << "silent_arming", PyBool(entry.present /\ CONF_SILENT_ARM \in entry.enabled) >> }

\* C6: the three flags arm_home, arm_away and arm_night pass to the vendor
\* client come from that action's own configuration entry: a flag is true
\* exactly when the option is enabled for the action, all three are false
\* when the action has no entry, whatever the other actions' entries are;
\* disarm sends no flags.
C6_FlagsFromOwnActionEntry ==
    \A i \in 1..Len(vendor_log) :
        LET e == vendor_log[i]
        IN  /\ e.method = "async_arm_stay" => e.flags = ExpectedFlags(options.arm_home)
            /\ e.method = "async_arm_away" => e.flags = ExpectedFlags(options.arm_away)
            /\ e.method = "async_arm_night" => e.flags = ExpectedFlags(options.arm_night)
            /\ e.method = "async_disarm" => e.flags = {}

\* arm_home sent only force-bypass while arm_away, configured with the other
\* two options, sent those two.
C6_Witness ==
    /\ options.arm_home = Enabled({CONF_FORCE_BYPASS})
    /\ options.arm_away = Enabled({CONF_NO_ENTRY_DELAY, CONF_SILENT_ARM})
    /\ options.arm_night = Absent
    /\ Len(vendor_log) = 2
    /\ vendor_log[1].method = "async_arm_stay"
    /\ vendor_log[1].flags = { << "force_bypass", "True" >>, << "no_entry_delay", "False" >>,
                               << "silent_arming", "False" >> }
    /\ vendor_log[2].method = "async_arm_away"
    /\ vendor_log[2].flags = { << "force_bypass", "False" >>, << "no_entry_delay", "True" >>,
                               << "silent_arming", "True" >> }

\* ------------------------------------------------------------ refresh

RefreshSnapshots ==
    { Partition("p1", st, mal, TRUE, "None", "None", issues) :
        st \in DeviceStates, mal \in NullableBool, issues \in {"None", "True"} }

\* Refreshes of the entity while the vendor library updates its cache.
InitRefresh ==
    \E d \in RefreshSnapshots : InitEntity(Options(PyNone, Absent, Absent, Absent), d)

VendorUpdates(snapshots) ==
    \E new \in snapshots :
        \/ VendorUpdateInPlace(new)
        \/ VendorUpdateReplace(new)

NextRefresh == Refresh \/ VendorUpdates(RefreshSnapshots)

SpecRefresh == InitRefresh /\ [][NextRefresh]_vars

\* The host state for a vendor state and a malfunction flag.
StateMapping(state, malfunction) ==
    IF malfunction = "True" THEN "None"
    ELSE IF state = "DISARMED" THEN "disarmed"
    ELSE IF state = "ARMED_STAY" THEN "armed_home"
    ELSE IF state = "ARMED_AWAY" THEN "armed_away"
    ELSE IF state = "ARMED_NIGHT" THEN "armed_night"
    ELSE "None"

\* C4: a coordinator update and the per-device dispatch signal both run the
\* refresh, which re-reads the device from the controller's cache and writes
\* the state to the host: after either trigger the state the host sees is
\* the mapping of the partition state the cache holds.
C4_HostSeesCachedStateAfterTrigger ==
    [][ (_handle_coordinator_update \/ DispatchSignal) =>
            host_state' = StateMapping(DevicesGet(entity._adc_id)'.state,
                                       DevicesGet(entity._adc_id)'.malfunction) ]_vars

\* C5: the state a refresh computes is a total function of the vendor state
\* and the malfunction flag: without malfunction DISARMED gives "disarmed",
\* ARMED_STAY "armed_home", ARMED_AWAY "armed_away", ARMED_NIGHT "armed_night";
\* a missing state, any other state and any state of a malfunctioning device
\* give unknown; a refresh never gives "arming" or "disarming".
C5_RefreshMapsVendorState ==
    [][ Refresh =>
            /\ _attr_state' = StateMapping(_device.state, _device.malfunction)
            /\ _attr_state' \notin InProgressStates ]_vars

\* A refresh mapped ARMED_NIGHT to "armed_night" (the host holds it) and a
\* later refresh, the device now malfunctioning, gave unknown.
C5_Witness ==
    /\ added
    /\ _device.state = "ARMED_NIGHT" /\ _device.malfunction = "True"
    /\ _attr_state = "None"
    /\ host_state = STATE_ALARM_ARMED_NIGHT

\* ------------------------------------------------------------ battery

BatterySnapshots ==
    { Partition("p1", "DISARMED", "False", TRUE, crit, low, "None") :
        crit \in NullableBool, low \in NullableBool }

\* Reads of the battery attributes while the vendor library updates the flags.
InitBattery ==
    \E d \in BatterySnapshots : InitEntity(Options(PyNone, Absent, Absent, Absent), d)

NextBattery == ReadBattery \/ VendorUpdates(BatterySnapshots)

SpecBattery == InitBattery /\ [][NextBattery]_vars

\* C8: the battery level is null exactly when both flags are null; otherwise
\* "critical" when battery_critical is true, otherwise "low" when battery_low
\* is true, otherwise "normal"; battery_alert is null for a null level, false
\* for normal and true for low or critical.
C8_BatteryLevelTriState ==
    battery_read.level # "unread" =>
        LET crit == battery_read.critical
            low == battery_read.low
            level == battery_read.level
            alert == battery_read.alert
            both_null == crit = "None" /\ low = "None"
        IN  /\ level = "None" <=> both_null
            /\ ~both_null /\ crit = "True" => level = "critical"
            /\ ~both_null /\ crit # "True" /\ low = "True" => level = "low"
            /\ ~both_null /\ crit # "True" /\ low # "True" => level = "normal"
            /\ level = "None" => alert = "None"
            /\ level = "normal" => alert = "False"
            /\ level \in {"low", "critical"} => alert = "True"

\* A read with both flags true gave "critical".
C8_Witness ==
    /\ battery_read.critical = "True" /\ battery_read.low = "True"
    /\ battery_read.level = "critical" /\ battery_read.alert = "True"

\* -------------------------------------------------------------- setup

\* Positional arguments AlarmControlPanel.__init__ passes to
\* super().__init__: controller, device, device.system_id.
SuperInitArguments == 3
\* Parameters HardwareBaseDevice.__init__ takes besides self: controller, device.
HardwareBaseDeviceInitParameters == 2

\* AlarmControlPanel(controller=..., device=...): the call of
\* super().__init__ comes first; Python raises TypeError when the number of
\* positional arguments is not the number the initialiser takes.
AlarmControlPanel__init__(opts, device) ==
    IF SuperInitArguments = HardwareBaseDeviceInitParameters
    THEN [ raised |-> "nothing", entity |-> << EntityFields(opts, device) >> ]
    ELSE [ raised |-> "TypeError", entity |-> << >> ]

\* async_setup_entry: hands the host a generator over the partitions and returns.
async_setup_entry ==
    /\ setup.status = "not_started"
    /\ setup' = [ status |-> "adding", remaining |-> partitions ]
    /\ UNCHANGED << options, host_entities, entity, _attr_state,
                    _attr_extra_state_attributes, added, host_state, last_accepted,
                    battery_read >>
    /\ UNCHANGED << device_vars, call_vars >>

\* The host takes the next entity from the generator, which constructs it; an
\* exception of the constructor ends the generator and reaches the host.
HostTakesNextEntity ==
    /\ setup.status = "adding"
    /\ setup.remaining # << >>
    /\ LET made == AlarmControlPanel__init__(options, Head(setup.remaining))
       IN  IF made.raised = "nothing"
           THEN /\ host_entities' = host_entities \o made.entity
                /\ setup' = [ setup EXCEPT !.remaining = Tail(setup.remaining) ]
           ELSE /\ setup' = [ setup EXCEPT !.status = made.raised ]
                /\ UNCHANGED host_entities
    /\ UNCHANGED << options, entity, _attr_state, _attr_extra_state_attributes, added,
                    host_state, last_accepted, battery_read >>
    /\ UNCHANGED << device_vars, call_vars >>

\* The generator is exhausted: the host has every entity.
HostHasAllEntities ==
    /\ setup.status = "adding"
    /\ setup.remaining = << >>
    /\ setup' = [ setup EXCEPT !.status = "added" ]
    /\ UNCHANGED << options, host_entities, entity, _attr_state,
                    _attr_extra_state_attributes, added, host_state, last_accepted,
                    battery_read >>
    /\ UNCHANGED << device_vars, call_vars >>

\* Setup for every collection of up to MaxPartitions partitions.
InitSetup ==
    \E n \in 0..MaxPartitions, code \in ArmCodeValues :
        \E night \in [1..n -> BOOLEAN] :
            /\ options = Options(code, Absent, Absent, Absent)
            /\ partitions =
                   [ i \in 1..n |->
                       Partition(PartitionIds[i], "DISARMED", "False", night[i],
                                 "None", "None", "None") ]
            /\ setup = [ status |-> "not_started", remaining |-> << >> ]
            /\ host_entities = << >>
            /\ entity = "None"
            /\ _device = "None"
            /\ aliased = FALSE
            /\ _attr_state = "None"
            /\ _attr_extra_state_attributes = [ uncleared_issues |-> "unset" ]
            /\ added = FALSE
            /\ host_state = "unwritten"
            /\ calls = << >>
            /\ vendor_log = << >>
            /\ notifications = << >>
            /\ last_accepted = 0
            /\ battery_read = NoRead

NextSetup == async_setup_entry \/ HostTakesNextEntity \/ HostHasAllEntities

SpecSetup == InitSetup /\ [][NextSetup]_vars

\* C7: for every finite set of partitions, setup completes and hands the
\* host exactly one AlarmControlPanel per partition, each bound to its own
\* partition (unique id equal to the partition's id), none skipped or
\* duplicated; each entity advertises arm-home and arm-away, and arm-night
\* exactly when its partition supports night arming.
C7_OneEntityPerPartition ==
    setup.status \notin {"not_started", "adding"} =>
        /\ setup.status = "added"
        /\ Len(host_entities) = Len(partitions)
        /\ \A i \in 1..Len(partitions) :
               /\ host_entities[i]._attr_unique_id = partitions[i].id_
               /\ {ARM_HOME, ARM_AWAY} \subseteq host_entities[i]._attr_supported_features
               /\ ARM_NIGHT \in host_entities[i]._attr_supported_features
                      <=> partitions[i].supports_night_arming

====
